---- MODULE Spec2Model ----
(***************************************************************************)
(* A model of src/main.rs: a single-node, in-memory, append-only ledger    *)
(* sealed by a proof-of-work search.                                       *)
(*                                                                         *)
(* Strings are sequences of one-character strings, so that join, the hex   *)
(* rendering of a digest and starts_with are computed character by         *)
(* character as the code computes them.                                    *)
(*                                                                         *)
(* std's DefaultHasher (SipHash, 64 bits) is not code of this repository;  *)
(* it is modelled by a byte-wise multiplicative mix of DigestBits bits     *)
(* that is fed exactly the bytes calculate_hash feeds the hasher.          *)
(***************************************************************************)
EXTENDS Integers, Sequences, FiniteSets, TLC

VARIABLES
    chain,                  \* Blockchain.chain: Vec<Block>
    pending_transactions,   \* Blockchain.pending_transactions: Vec<String>
    difficulty,             \* Blockchain.difficulty: usize
    pc,                     \* where control is: "idle" (between public calls),
                            \* "mine_block" (inside the loop of mine_block),
                            \* or the message of the panic that aborted the
                            \* process
    previous_hash,          \* mine_block's parameter previous_hash
    timestamp,              \* add_block's local / mine_block's parameter
    data,                   \* add_block's / mine_block's parameter data
    nonce,                  \* mine_block's local nonce
    called,                 \* the public operation invoked last
    appended,               \* history: the texts passed to add_transaction,
                            \* in call order
    seal_calls,             \* history: the number of calls of
                            \* mine_and_add_block made with a non-empty pool
    tampered                \* which stored field of which block was changed
                            \* behind the ledger's back (NotTampered if none)

vars == <<chain, pending_transactions, difficulty, pc,
          previous_hash, timestamp, data, nonce, called,
          appended, seal_calls, tampered>>

(***************************************************************************)
(* Bounds of the model.                                                    *)
(***************************************************************************)
MaxPending == 2      \* add_transaction is explored while the pool is shorter
MaxBlocks == 2       \* sealing is explored while fewer blocks were sealed
MaxDifficulty == 2   \* initialize(d) is explored for d in 0..MaxDifficulty
NonceBits == 4       \* width of the nonce counter (u64 in the code)
DigestBits == 8      \* width of the digest (u64 in the code)

(***************************************************************************)
(* Characters and strings.                                                 *)
(***************************************************************************)
\* the ASCII code of each character the model's strings are made of
Ascii ==
    [c \in {" ", "0", "1", "2", "3", "4", "5", "6", "7", "8", "9", ";",
            "B", "G", "T", "a", "b", "c", "d", "e", "f", "i", "k", "l",
            "n", "o", "r", "s", "t"} |->
     CASE c = " " -> 32  [] c = "0" -> 48  [] c = "1" -> 49  [] c = "2" -> 50
       [] c = "3" -> 51  [] c = "4" -> 52  [] c = "5" -> 53  [] c = "6" -> 54
       [] c = "7" -> 55  [] c = "8" -> 56  [] c = "9" -> 57  [] c = ";" -> 59
       [] c = "B" -> 66  [] c = "G" -> 71  [] c = "T" -> 84  [] c = "a" -> 97
       [] c = "b" -> 98  [] c = "c" -> 99  [] c = "d" -> 100 [] c = "e" -> 101
       [] c = "f" -> 102 [] c = "i" -> 105 [] c = "k" -> 107 [] c = "l" -> 108
       [] c = "n" -> 110 [] c = "o" -> 111 [] c = "r" -> 114 [] c = "s" -> 115
       [] c = "t" -> 116]

Ord(c) == Ascii[c]

HexDigit == <<"0", "1", "2", "3", "4", "5", "6", "7",
              "8", "9", "a", "b", "c", "d", "e", "f">>

\* the strings of main
GenesisData == <<"G","e","n","e","s","i","s"," ","B","l","o","c","k">>
Transaction == <<"T","r","a","n","s","a","c","t","i","o","n"," ">>
Transaction1 == Transaction \o <<"1">>
Transaction2 == Transaction \o <<"2">>
Transaction3 == Transaction \o <<"3">>

\* the texts add_transaction is explored with: a letter and the empty string
Texts == { <<"a">>, <<>> }

\* the seconds since the epoch the clock is explored to report
Seconds == {0, 1}

(***************************************************************************)
(* Vec<String>::join(sep): the elements in order, sep between neighbours.  *)
(***************************************************************************)
\* join with a slip: the separator is left out (concat)
RECURSIVE join_NoSeparator(_, _)
join_NoSeparator(v, sep) ==
    IF v = <<>> THEN <<>> ELSE v[1] \o join_NoSeparator(Tail(v), sep)

\* join with a slip: the elements are taken from the last to the first
RECURSIVE join_LastFirst(_, _)
join_LastFirst(v, sep) ==
    IF v = <<>> THEN <<>>
    ELSE IF Len(v) = 1 THEN v[1]
    ELSE join_LastFirst(Tail(v), sep) \o sep \o v[1]

RECURSIVE join(_, _)
join(v, sep) ==
    IF v = <<>> THEN <<>>
    ELSE IF Len(v) = 1 THEN v[1]
    ELSE v[1] \o sep \o join(Tail(v), sep)

(***************************************************************************)
(* The hasher.  A str is fed to it as its bytes followed by 0xff, a u64    *)
(* as its 8 little-endian bytes (impl Hash for str / for u64).  Feeding    *)
(* byte b takes the hasher state h to (33 * h + b + 1) mod 2^DigestBits;   *)
(* finish() is the state reached from 0 after every byte fed.  The effect  *)
(* of a run of bytes on the state is h -> (mul * h + add) mod              *)
(* 2^DigestBits, and is computed by halves.                                *)
(***************************************************************************)
DigestModulus == 2 ^ DigestBits

\* the effect of feeding `first` and then `second`
Then(first, second) ==
    [mul |-> (first.mul * second.mul) % DigestModulus,
     add |-> (second.mul * first.add + second.add) % DigestModulus]

\* the effect of feeding bytes[i..j] in order, i <= j
RECURSIVE Write(_, _, _)
Write(bytes, i, j) ==
    IF i = j
    THEN [mul |-> 33 % DigestModulus, add |-> (bytes[i] + 1) % DigestModulus]
    ELSE Then(Write(bytes, i, (i + j) \div 2),
              Write(bytes, ((i + j) \div 2) + 1, j))

StrBytes(s) == [i \in 1..Len(s) |-> Ord(s[i])] \o <<255>>

\* the 8 little-endian bytes of n (n < 2^31 here: the four high bytes are 0)
U64Bytes(n) ==
    <<n % 256, (n \div 256) % 256, (n \div 65536) % 256,
      (n \div 16777216) % 256, 0, 0, 0, 0>>

finish(bytes) == Write(bytes, 1, Len(bytes)).add

\* format! with a padded rendering: "{:0w$x}", w the digits of a full digest
LowerHex_Padded(n) ==
    [i \in 1..((DigestBits + 3) \div 4) |->
        HexDigit[((n \div (16 ^ (((DigestBits + 3) \div 4) - i))) % 16) + 1]]

\* format!("{:x}", n): lowercase hex, no padding, "0" for zero
RECURSIVE LowerHex(_)
LowerHex(n) ==
    IF n < 16 THEN <<HexDigit[n + 1]>>
    ELSE LowerHex(n \div 16) \o <<HexDigit[(n % 16) + 1]>>

calculate_hash(prev, ts, payload, n) ==
    LowerHex(finish(StrBytes(prev) \o U64Bytes(ts)
                    \o StrBytes(payload) \o U64Bytes(n)))

\* "0".repeat(n)
RECURSIVE Repeat0(_)
Repeat0(n) == IF n = 0 THEN <<>> ELSE <<"0">> \o Repeat0(n - 1)

\* str::starts_with
starts_with(s, prefix) ==
    /\ Len(prefix) <= Len(s)
    /\ SubSeq(s, 1, Len(prefix)) = prefix

\* str::ends_with
ends_with(s, suffix) ==
    /\ Len(suffix) <= Len(s)
    /\ SubSeq(s, Len(s) - Len(suffix) + 1, Len(s)) = suffix

\* is_valid_hash with a slip: the zeros are looked for at the end
is_valid_hash_EndsWith(hash) == ends_with(hash, Repeat0(difficulty))

\* is_valid_hash with a slip: one zero too few is asked for
is_valid_hash_OneShort(hash) ==
    starts_with(hash, Repeat0(IF difficulty > 0 THEN difficulty - 1 ELSE 0))

\* is_valid_hash with a slip: one zero too many is asked for
is_valid_hash_OneMore(hash) == starts_with(hash, Repeat0(difficulty + 1))

is_valid_hash(hash) == starts_with(hash, Repeat0(difficulty))

(***************************************************************************)
(* Blockchain::new(difficulty)                                             *)
(***************************************************************************)
\* the genesis block with a slip: its hash is computed, not the sentinel
genesis_block_Hashed ==
    [index |-> 0, timestamp |-> 0, data |-> GenesisData,
     previous_hash |-> <<"0">>,
     hash |-> calculate_hash(<<"0">>, 0, GenesisData, 0), nonce |-> 0]

genesis_block ==
    [index |-> 0, timestamp |-> 0, data |-> GenesisData,
     previous_hash |-> <<"0">>, hash |-> <<"0">>, nonce |-> 0]

NotTampered == [index |-> 0, field |-> "none"]

new(d) ==
    /\ chain = <<genesis_block>>
    /\ pending_transactions = <<>>
    /\ difficulty = d
    /\ pc = "idle"
    /\ previous_hash = <<>>
    /\ timestamp = 0
    /\ data = <<>>
    /\ nonce = 0
    /\ called = "new"
    /\ appended = <<>>
    /\ seal_calls = 0
    /\ tampered = NotTampered

Init == \E d \in 0..MaxDifficulty : new(d)

(***************************************************************************)
(* current_timestamp(): the seconds since the epoch, or the panic of       *)
(* expect("Time went backwards") when the clock is before the epoch.       *)
(***************************************************************************)
TimeWentBackwards == -1

\* the panic messages
TimePanic == "Time went backwards"
ChainPanic == "Blockchain should have at least one block."
OverflowPanic == "attempt to add with overflow"

current_timestamp == Seconds \cup {TimeWentBackwards}

(***************************************************************************)
(* add_transaction(transaction)                                            *)
(***************************************************************************)
\* add_transaction with a slip: the text is inserted at the front of the pool
add_transaction_Front(transaction) ==
    /\ pc = "idle"
    /\ Len(pending_transactions) < MaxPending
    /\ pending_transactions' = <<transaction>> \o pending_transactions
    /\ called' = "add_transaction"
    /\ appended' = Append(appended, transaction)
    /\ UNCHANGED <<chain, difficulty, pc, previous_hash, timestamp, data, nonce,
                   seal_calls, tampered>>

add_transaction(transaction) ==
    /\ pc = "idle"
    /\ Len(pending_transactions) < MaxPending
    /\ pending_transactions' = Append(pending_transactions, transaction)
    /\ called' = "add_transaction"
    /\ appended' = Append(appended, transaction)
    /\ UNCHANGED <<chain, difficulty, pc, previous_hash, timestamp, data, nonce,
                   seal_calls, tampered>>

(***************************************************************************)
(* mine_and_add_block(), up to the first iteration of mine_block's loop:   *)
(* the empty-pool return, the join, add_block's read of the last block     *)
(* and of the clock, and mine_block's nonce = 0.                           *)
(***************************************************************************)
\* mine_and_add_block with a slip: the pool is not tested for emptiness
mine_and_add_block_NoEmptyCheck ==
    /\ pc = "idle"
    /\ called' = "mine_and_add_block"
    /\ seal_calls' = seal_calls + 1
    /\ UNCHANGED <<appended, tampered>>
    /\ Len(chain) <= MaxBlocks
    /\ \E now \in current_timestamp :
         IF chain = <<>> \/ now = TimeWentBackwards
         THEN /\ pc' = IF chain = <<>> THEN ChainPanic ELSE TimePanic
              /\ UNCHANGED <<chain, pending_transactions, difficulty,
                             previous_hash, timestamp, data, nonce>>
         ELSE /\ data' = join(pending_transactions, <<";">>)
              /\ previous_hash' = chain[Len(chain)].hash
              /\ timestamp' = now
              /\ nonce' = 0
              /\ pc' = "mine_block"
              /\ UNCHANGED <<chain, pending_transactions, difficulty>>

\* mine_and_add_block with a slip: the pool is drained into the payload
\* before add_block reads the clock
mine_and_add_block_DrainFirst ==
    /\ pc = "idle"
    /\ called' = "mine_and_add_block"
    /\ UNCHANGED <<appended, tampered>>
    /\ \/ /\ pending_transactions = <<>>
          /\ UNCHANGED <<chain, pending_transactions, difficulty, pc,
                         previous_hash, timestamp, data, nonce, seal_calls>>
       \/ /\ pending_transactions # <<>>
          /\ Len(chain) <= MaxBlocks
          /\ seal_calls' = seal_calls + 1
          /\ pending_transactions' = <<>>
          /\ \E now \in current_timestamp :
               IF chain = <<>> \/ now = TimeWentBackwards
               THEN /\ pc' = IF chain = <<>> THEN ChainPanic ELSE TimePanic
                    /\ UNCHANGED <<chain, difficulty,
                                   previous_hash, timestamp, data, nonce>>
               ELSE /\ data' = join(pending_transactions, <<";">>)
                    /\ previous_hash' = chain[Len(chain)].hash
                    /\ timestamp' = now
                    /\ nonce' = 0
                    /\ pc' = "mine_block"
                    /\ UNCHANGED <<chain, difficulty>>

mine_and_add_block ==
    /\ pc = "idle"
    /\ called' = "mine_and_add_block"
    /\ UNCHANGED <<appended, tampered>>
    /\ \/ /\ pending_transactions = <<>>
          /\ UNCHANGED <<chain, pending_transactions, difficulty, pc,
                         previous_hash, timestamp, data, nonce, seal_calls>>
       \/ /\ pending_transactions # <<>>
          /\ Len(chain) <= MaxBlocks
          /\ seal_calls' = seal_calls + 1
          /\ \E now \in current_timestamp :
               IF chain = <<>> \/ now = TimeWentBackwards
               THEN /\ pc' = IF chain = <<>> THEN ChainPanic ELSE TimePanic
                    /\ UNCHANGED <<chain, pending_transactions, difficulty,
                                   previous_hash, timestamp, data, nonce>>
               ELSE /\ data' = join(pending_transactions, <<";">>)
                    /\ previous_hash' = chain[Len(chain)].hash
                    /\ timestamp' = now
                    /\ nonce' = 0
                    /\ pc' = "mine_block"
                    /\ UNCHANGED <<chain, pending_transactions, difficulty>>

(***************************************************************************)
(* The block add_block builds from the miner's result, and its push.       *)
(***************************************************************************)
\* Block with a slip: the link is taken from the first block, not the last
Block_GenesisLink(c, ts, payload, h, n) ==
    [index |-> Len(c), timestamp |-> ts, data |-> payload,
     previous_hash |-> c[1].hash, hash |-> h, nonce |-> n]

\* Block with a slip: the nonce is stored after its increment
Block_NonceAfterIncrement(c, ts, payload, h, n) ==
    [index |-> Len(c), timestamp |-> ts, data |-> payload,
     previous_hash |-> c[Len(c)].hash, hash |-> h, nonce |-> n + 1]

\* Block with a slip: the index is taken after the push (1-based)
Block_OneBasedIndex(c, ts, payload, h, n) ==
    [index |-> Len(c) + 1, timestamp |-> ts, data |-> payload,
     previous_hash |-> c[Len(c)].hash, hash |-> h, nonce |-> n]

\* (index is chain.len() as u32: the cast loses nothing below 2^32 blocks)
Block(c, ts, payload, h, n) ==
    [index |-> Len(c), timestamp |-> ts, data |-> payload,
     previous_hash |-> c[Len(c)].hash, hash |-> h, nonce |-> n]

(***************************************************************************)
(* One iteration of mine_block's loop.  When the candidate is valid the    *)
(* miner returns, add_block pushes the block and mine_and_add_block clears *)
(* the pool and returns.  Otherwise nonce += 1: on u64 overflow a build    *)
(* with overflow checks panics and one without wraps to 0.                 *)
(***************************************************************************)
NonceModulus == 2 ^ NonceBits

\* nonce += 1 with a slip: every other nonce is tried
increment_ByTwo(n) == n + 2

\* nonce += 1, before any overflow
increment(n) == n + 1

\* Vec::push with a slip: the new block overwrites the last one
push_OverLast(v, value) == [v EXCEPT ![Len(v)] = value]

\* Vec::push
push(v, value) == Append(v, value)

\* Vec::clear with a slip: the elements are kept
clear_KeepsAll(v) == v

\* Vec::clear
clear(v) == <<>>

mine_block ==
    /\ pc = "mine_block"
    /\ UNCHANGED <<appended, seal_calls, tampered>>
    /\ LET hash == calculate_hash(previous_hash, timestamp, data, nonce) IN
       \/ /\ is_valid_hash(hash)
          /\ chain' = push(chain, Block(chain, timestamp, data, hash, nonce))
          /\ pending_transactions' = clear(pending_transactions)
          /\ pc' = "idle"
          /\ previous_hash' = <<>>
          /\ timestamp' = 0
          /\ data' = <<>>
          /\ nonce' = 0
          /\ UNCHANGED <<difficulty, called>>
       \/ /\ ~is_valid_hash(hash)
          /\ increment(nonce) < NonceModulus
          /\ nonce' = increment(nonce)
          /\ UNCHANGED <<chain, pending_transactions, difficulty, pc,
                         previous_hash, timestamp, data, called>>
       \/ /\ ~is_valid_hash(hash)
          /\ increment(nonce) >= NonceModulus
          /\ \/ /\ pc' = OverflowPanic
                /\ UNCHANGED nonce
             \/ /\ nonce' = 0
                /\ UNCHANGED pc
          /\ UNCHANGED <<chain, pending_transactions, difficulty,
                         previous_hash, timestamp, data, called>>

Next ==
    \/ \E transaction \in Texts : add_transaction(transaction)
    \/ mine_and_add_block
    \/ mine_block

Spec == Init /\ [][Next]_vars

(***************************************************************************)
(* main(): the fixed run.  Its position is read off the ledger: which      *)
(* transactions are pending and how many blocks were sealed.  The run is   *)
(* explored for every difficulty up to the one main passes.                *)
(***************************************************************************)
MainDifficulty == 4

InitMain == \E d \in 0..MainDifficulty : new(d)

main ==
    \/ /\ Len(chain) = 1
       /\ pending_transactions = <<>>
       /\ add_transaction(Transaction1)
    \/ /\ Len(chain) = 1
       /\ pending_transactions = <<Transaction1>>
       /\ add_transaction(Transaction2)
    \/ /\ Len(chain) = 1
       /\ pending_transactions = <<Transaction1, Transaction2>>
       /\ mine_and_add_block
    \/ /\ Len(chain) = 2
       /\ pending_transactions = <<>>
       /\ add_transaction(Transaction3)
    \/ /\ Len(chain) = 2
       /\ pending_transactions = <<Transaction3>>
       /\ mine_and_add_block
    \/ mine_block

SpecMain == InitMain /\ [][main]_vars

(***************************************************************************)
(* validate() and tampering.  src/main.rs has no validate(); it is         *)
(* modelled from section 4.1 of the specification: for each block from     *)
(* index 1 upward, recompute the digest of its stored previous_hash,       *)
(* timestamp, data and nonce and compare it to its stored hash; check that *)
(* its previous_hash is the prior block's hash; check that the recomputed  *)
(* hash meets the difficulty; report the index and the failing check of    *)
(* the first violation, or success.                                        *)
(***************************************************************************)
\* failing_check with the linkage checked before the hash
failing_check_LinkageFirst(c, i) ==
    LET recomputed == calculate_hash(c[i].previous_hash, c[i].timestamp,
                                     c[i].data, c[i].nonce) IN
      IF c[i].previous_hash # c[i - 1].hash THEN "linkage mismatch"
      ELSE IF recomputed # c[i].hash THEN "hash mismatch"
      ELSE IF ~is_valid_hash(recomputed) THEN "difficulty not met"
      ELSE "none"

\* the first failing check of the block at position i of c, or "none"
failing_check(c, i) ==
    LET recomputed == calculate_hash(c[i].previous_hash, c[i].timestamp,
                                     c[i].data, c[i].nonce) IN
      IF recomputed # c[i].hash THEN "hash mismatch"
      ELSE IF c[i].previous_hash # c[i - 1].hash THEN "linkage mismatch"
      ELSE IF ~is_valid_hash(recomputed) THEN "difficulty not met"
      ELSE "none"

success == [index |-> 0, kind |-> "none"]

validate(c) ==
    IF \E i \in 2..Len(c) : failing_check(c, i) # "none"
    THEN LET i == CHOOSE k \in 2..Len(c) :
                      /\ failing_check(c, k) # "none"
                      /\ \A j \in 2..(k - 1) : failing_check(c, j) = "none"
         IN [index |-> c[i].index, kind |-> failing_check(c, i)]
    ELSE success

\* the values a stored field is overwritten with (at DigestBits = 8 the
\* payload "ba" has, in the first block main seals at second 0, the digest
\* of the payload it replaces)
TamperValues ==
    [index |-> 0..(MaxBlocks + 1),
     timestamp |-> Seconds \cup {2},
     data |-> Texts \cup {<<"b">>, <<"b", "a">>, <<";">>},
     previous_hash |-> {<<"0">>, <<"1">>, <<"a">>, <<"f", "f">>},
     hash |-> {<<"0">>, <<"1">>, <<"a">>, <<"f", "f">>},
     nonce |-> 0..(NonceModulus - 1)]

\* one stored field of one block after the genesis block is given another
\* value, once a seal has returned; from then on the ledger is only read
tamper ==
    /\ pc = "idle"
    /\ called = "mine_and_add_block"
    /\ tampered = NotTampered
    /\ \E i \in 2..Len(chain) :
         \E field \in DOMAIN TamperValues :
           \E value \in TamperValues[field] :
             /\ value # chain[i][field]
             /\ chain' = [chain EXCEPT ![i][field] = value]
             /\ tampered' = [index |-> i - 1, field |-> field]
    /\ pc' = "tampered"
    /\ UNCHANGED <<pending_transactions, difficulty, previous_hash, timestamp,
                   data, nonce, called, appended, seal_calls>>

\* main's run, tampered with after either of its seals
mainTamper ==
    \/ main
    \/ tamper

SpecTamper == InitMain /\ [][mainTamper]_vars

(***************************************************************************)
(* The properties.                                                         *)
(***************************************************************************)
\* the number of leading '0' characters of s
RECURSIVE LeadingZeros(_)
LeadingZeros(s) ==
    IF s = <<>> \/ Head(s) # "0" THEN 0 ELSE 1 + LeadingZeros(Tail(s))

\* the texts of v in order, each but the first preceded by ";"
RECURSIVE Semicolons(_, _)
Semicolons(v, k) ==
    IF k = 0 THEN <<>>
    ELSE IF k = 1 THEN v[1]
    ELSE Semicolons(v, k - 1) \o <<";">> \o v[k]

LastBlock(c) == c[Len(c)]

\* C1 - Chain linkage: in every reachable state, every block after the
\* genesis block stores as previous_hash the hash of the block before it.
C1_ChainLinkage ==
    \A i \in 2..Len(chain) : chain[i].previous_hash = chain[i - 1].hash

\* two sealed blocks, the first with a hash other than the genesis sentinel
C1_Witness ==
    /\ Len(chain) = 3
    /\ chain[2].hash # <<"0">>
    /\ chain[3].previous_hash = chain[2].hash

\* C2 - Hash consistency: in every reachable state, the hash stored in a
\* sealed block is the Hasher's output for that block's own stored
\* previous_hash, timestamp, data and nonce.
C2_HashConsistency ==
    \A i \in 2..Len(chain) :
        chain[i].hash = calculate_hash(chain[i].previous_hash,
                            chain[i].timestamp, chain[i].data, chain[i].nonce)

\* two sealed blocks, the second at a timestamp > 0 and on a hash other
\* than the genesis sentinel
C2_Witness ==
    /\ Len(chain) = 3
    /\ chain[3].timestamp > 0
    /\ chain[3].previous_hash # <<"0">>
    /\ chain[3].data # <<>>

\* C3 - Difficulty invariant: in every reachable state, the hash stored in a
\* sealed block has at least `difficulty` leading '0' characters.
C3_Difficulty ==
    \A i \in 2..Len(chain) : LeadingZeros(chain[i].hash) >= difficulty

\* a block sealed on a ledger of difficulty 1
C3_Witness ==
    /\ difficulty >= 1
    /\ Len(chain) >= 2
    /\ LeadingZeros(chain[2].hash) >= 1

\* C4 - Genesis invariant: in every reachable state the chain is not empty
\* and its first block has index 0, previous_hash "0", hash "0", nonce 0.
C4_Genesis ==
    /\ Len(chain) >= 1
    /\ chain[1].index = 0
    /\ chain[1].previous_hash = <<"0">>
    /\ chain[1].hash = <<"0">>
    /\ chain[1].nonce = 0

\* a ledger of the largest difficulty after appends, and one after two seals
C4_Witness ==
    \/ /\ difficulty = MaxDifficulty
       /\ Len(pending_transactions) = MaxPending
    \/ /\ Len(chain) = 3
       /\ pending_transactions # <<>>

\* C5 - Pool draining: a seal_pending that was called with N >= 1 pending
\* transactions and returns leaves the pool empty, the chain one block
\* longer, and the new block's data the N transactions in insertion order
\* joined with ";".
C5_PoolDraining ==
    [][ (pc = "mine_block" /\ pc' = "idle") =>
          /\ pending_transactions # <<>>
          /\ pending_transactions' = <<>>
          /\ Len(chain') = Len(chain) + 1
          /\ SubSeq(chain', 1, Len(chain)) = chain
          /\ LastBlock(chain').data =
                 Semicolons(pending_transactions, Len(pending_transactions))
      ]_vars

\* a seal of two transactions has returned
C5_Witness ==
    /\ pc = "idle"
    /\ called = "mine_and_add_block"
    /\ pending_transactions = <<>>
    /\ Len(chain) = 2
    /\ chain[2].data = <<"a", ";">>

\* C6 - Empty-pool no-op: seal_pending called with an empty pool returns
\* at once, leaving the chain, the pool and the difficulty as they were,
\* without reading the clock or entering the miner.
C6_EmptyPoolNoOp ==
    [][ (pc = "idle" /\ pending_transactions = <<>>
           /\ called' = "mine_and_add_block") =>
          /\ pc' = "idle"
          /\ chain' = chain
          /\ pending_transactions' = pending_transactions
          /\ difficulty' = difficulty
          /\ UNCHANGED <<previous_hash, timestamp, data, nonce>>
      ]_vars

\* seal_pending was called on a ledger that never held a transaction
C6_Witness ==
    /\ called = "mine_and_add_block"
    /\ pc = "idle"
    /\ pending_transactions = <<>>
    /\ Len(chain) = 1

\* C7 - Miner postcondition: whenever the Miner returns (nonce, hash) for
\* (previous_hash, timestamp, payload), hash is the Hasher's output for
\* (previous_hash, timestamp, payload, nonce) and has at least `difficulty`
\* leading '0' characters.
C7_MinerPostcondition ==
    [][ (pc = "mine_block" /\ pc' = "idle") =>
          /\ LastBlock(chain').nonce = nonce
          /\ LastBlock(chain').hash =
                 calculate_hash(previous_hash, timestamp, data, nonce)
          /\ LeadingZeros(LastBlock(chain').hash) >= difficulty
      ]_vars

\* the Miner has returned after a search, at difficulty 1
C7_Witness ==
    /\ pc = "idle"
    /\ difficulty = 1
    /\ Len(chain) >= 2
    /\ LastBlock(chain).nonce > 0

\* C9 - Scenario B: at difficulty 0 the Miner returns nonce 0 from the first
\* iteration of its loop, so every block of a difficulty-0 ledger has
\* nonce 0.
C9_TrivialDifficulty ==
    /\ [](difficulty = 0 =>
            /\ \A i \in 1..Len(chain) : chain[i].nonce = 0
            /\ pc = "mine_block" => nonce = 0)
    /\ [][ (difficulty = 0 /\ pc = "mine_block") =>
             /\ pc' = "idle"
             /\ Len(chain') = Len(chain) + 1
             /\ LastBlock(chain').nonce = 0
         ]_vars

\* two blocks were sealed at difficulty 0
C9_Witness ==
    /\ difficulty = 0
    /\ Len(chain) = 3
    /\ chain[2].nonce = 0
    /\ chain[3].nonce = 0

C8_ScenarioA ==
    difficulty = 4 =>
       /\ pc = "mine_block" =>
             \E n \in nonce..(NonceModulus - 1) :
                 is_valid_hash(calculate_hash(previous_hash, timestamp, data, n))
       /\ pc # OverflowPanic
       /\ Len(chain) >= 2 =>
             /\ chain[2].data = Transaction1 \o <<";">> \o Transaction2
             /\ starts_with(chain[2].hash, <<"0", "0", "0", "0">>)
       /\ Len(chain) >= 3 =>
             /\ chain[3].data = Transaction3
             /\ chain[3].previous_hash = chain[2].hash

\* C11 - Append-only log: every step leaves the chain as it was or extends
\* it: the chain before the step is a prefix of the chain after it, so its
\* length never decreases and no block once stored is changed, moved or
\* removed.
C11_AppendOnly ==
    [][ /\ Len(chain') >= Len(chain)
        /\ SubSeq(chain', 1, Len(chain)) = chain ]_vars

\* two blocks with different payloads were pushed onto the genesis block
C11_Witness ==
    /\ Len(chain) = 3
    /\ chain[2].data # chain[3].data
    /\ chain[2].hash # chain[3].hash

\* C12 - add_transaction(text) succeeds and appends: every step that is a
\* call of add_transaction returns normally, leaves the pool equal to the
\* old pool with the text passed (the last entry of the history of texts)
\* appended at its end, and leaves the chain and the difficulty unchanged.
C12_AppendTransaction ==
    [][ (pc = "idle" /\ called' = "add_transaction") =>
            /\ pc' = "idle"
            /\ Len(appended') = Len(appended) + 1
            /\ pending_transactions' =
                   Append(pending_transactions, appended'[Len(appended')])
            /\ chain' = chain
            /\ difficulty' = difficulty ]_vars

\* add_transaction was called on a pool that held a different text, after a
\* block had been sealed
C12_Witness ==
    /\ called = "add_transaction"
    /\ Len(chain) >= 2
    /\ Len(pending_transactions) = 2
    /\ pending_transactions[1] # pending_transactions[2]

\* the number of hex digits a digest of DigestBits bits has when none is
\* dropped
HexWidth == Len(LowerHex(DigestModulus - 1))

\* C13 - Hasher output format: every output of calculate_hash is a
\* fixed-width lowercase hex string: every candidate hash the miner computes
\* and every hash stored in a sealed block has HexWidth characters, small
\* digests being padded with leading '0' and not shortened.
C13_FixedWidthHex ==
    /\ pc = "mine_block" =>
           Len(calculate_hash(previous_hash, timestamp, data, nonce)) = HexWidth
    /\ \A i \in 2..Len(chain) : Len(chain[i].hash) = HexWidth

\* C14 - Atomic seal: whenever mine_and_add_block was the last operation
\* and has returned, the pool is empty; and every step taken inside a call
\* of mine_and_add_block either leaves chain and pool as they were before
\* the call, or returns having pushed exactly one block that is valid (its
\* index is its position, it links to the block before it, its hash is the
\* digest of its stored fields and meets the difficulty) and having emptied
\* a pool that was not empty.  No step pushes a block and keeps the pool, or
\* empties the pool and pushes no block.
C14_AtomicSeal ==
    /\ [](pc = "idle" /\ called = "mine_and_add_block"
              => pending_transactions = <<>>)
    /\ [][ called' = "mine_and_add_block" =>
             \/ /\ chain' = chain
                /\ pending_transactions' = pending_transactions
             \/ /\ pc' = "idle"
                /\ pending_transactions # <<>>
                /\ pending_transactions' = <<>>
                /\ Len(chain') = Len(chain) + 1
                /\ SubSeq(chain', 1, Len(chain)) = chain
                /\ LET b == LastBlock(chain') IN
                     /\ b.index = Len(chain)
                     /\ b.previous_hash = LastBlock(chain).hash
                     /\ b.hash = calculate_hash(b.previous_hash, b.timestamp,
                                                b.data, b.nonce)
                     /\ LeadingZeros(b.hash) >= difficulty ]_vars

\* a seal of a pool of two texts has returned, after an earlier seal
C14_Witness ==
    /\ pc = "idle"
    /\ called = "mine_and_add_block"
    /\ Len(chain) = 3
    /\ \E i \in 1..Len(LastBlock(chain).data) : LastBlock(chain).data[i] = ";"
    /\ pending_transactions = <<>>

\* C17 - Least nonce: the search starts at nonce 0; an iteration that does
\* not return found its candidate invalid and moves to the next nonce (back
\* to 0 past the last one), changing neither chain, pool nor difficulty;
\* and when the miner returns, the nonce stored in the pushed block is the
\* one the search stood at, its hash meets the difficulty, and no smaller
\* nonce gives a hash of the same previous hash, timestamp and payload that
\* meets it.
C17_LeastNonce ==
    [][ /\ (pc = "idle" /\ pc' = "mine_block") =>
               /\ nonce' = 0
               /\ chain' = chain
               /\ pending_transactions' = pending_transactions
        /\ (pc = "mine_block" /\ pc' # "idle") =>
               /\ ~is_valid_hash(calculate_hash(previous_hash, timestamp,
                                                data, nonce))
               /\ pc' = "mine_block" => nonce' = (nonce + 1) % NonceModulus
               /\ chain' = chain
               /\ pending_transactions' = pending_transactions
               /\ difficulty' = difficulty
        /\ (pc = "mine_block" /\ pc' = "idle") =>
               LET b == LastBlock(chain') IN
                 /\ b.nonce = nonce
                 /\ b.hash = calculate_hash(previous_hash, timestamp, data,
                                            b.nonce)
                 /\ is_valid_hash(b.hash)
                 /\ \A n \in 0..(b.nonce - 1) :
                        ~is_valid_hash(calculate_hash(previous_hash, timestamp,
                                                      data, n)) ]_vars

\* the miner returned after passing over several invalid candidates
C17_Witness ==
    /\ pc = "idle"
    /\ Len(chain) >= 2
    /\ difficulty = 1
    /\ LastBlock(chain).nonce >= 2
    /\ LastBlock(chain).hash = <<"0">>

\* C19 - Clock fault: the panic "Time went backwards" is raised only by a
\* call of mine_and_add_block made with a non-empty pool, before the search
\* starts; the step that raises it leaves the chain and the pool as they
\* were (no block pushed, pool not cleared); and the panic is final: no
\* step follows it, so the call is not retried.
C19_ClockFault ==
    [][ /\ pc' = TimePanic =>
               /\ pc = "idle"
               /\ called' = "mine_and_add_block"
               /\ pending_transactions # <<>>
               /\ chain' = chain
               /\ pending_transactions' = pending_transactions
        /\ pc # TimePanic ]_vars

\* the clock fault struck a seal of two pending texts, after an earlier seal
C19_Witness ==
    /\ pc = TimePanic
    /\ Len(chain) = 2
    /\ Len(pending_transactions) = 2
    /\ seal_calls = 2

\* C20 - Unpadded hex defeats difficulty 2 and more: a candidate hash
\* begins with '0' only when it is the one-character string "0", so has at
\* most one leading zero; hence when the difficulty is 2 or more no
\* candidate is valid, no step of mine_block returns, and the chain stays
\* at the length it had before the call (the genesis block alone) however
\* long the search runs.
C20_NoSealAboveOne ==
    /\ [](pc = "mine_block" =>
            LET hash == calculate_hash(previous_hash, timestamp, data, nonce) IN
              /\ Head(hash) = "0" => hash = <<"0">>
              /\ difficulty >= 2 => ~is_valid_hash(hash))
    /\ [](difficulty >= 2 => Len(chain) = 1)
    /\ [][ (difficulty >= 2 /\ pc = "mine_block") =>
               /\ pc' # "idle"
               /\ chain' = chain ]_vars

\* at difficulty 2 the search has reached the last nonce, having passed a
\* nonce whose hash is "0"
C20_Witness ==
    /\ difficulty >= 2
    /\ pc = "mine_block"
    /\ nonce = NonceModulus - 1
    /\ Len(chain) = 1
    /\ Len(pending_transactions) = 2
    /\ \E n \in 0..(nonce - 1) :
           calculate_hash(previous_hash, timestamp, data, n) = <<"0">>

\* the texts a payload was joined from: the pieces of s between its ';'
\* (the texts explored hold no ';', and an empty pool is never sealed)
RECURSIVE Split(_)
Split(s) ==
    IF \E i \in 1..Len(s) : s[i] = ";"
    THEN LET i == CHOOSE k \in 1..Len(s) :
                      s[k] = ";" /\ \A j \in 1..(k - 1) : s[j] # ";"
         IN <<SubSeq(s, 1, i - 1)>> \o Split(SubSeq(s, i + 1, Len(s)))
    ELSE <<s>>

\* the texts sealed into blocks 1..k-1 (c[2]..c[k]), in chain order
RECURSIVE Sealed(_, _)
Sealed(c, k) ==
    IF k <= 1 THEN <<>> ELSE Sealed(c, k - 1) \o Split(c[k].data)

\* C18 as stated - No transaction lost, duplicated or reordered: in every
\* reachable state the texts sealed into the blocks after the genesis
\* block, in chain order, followed by the pool, are the texts passed to
\* add_transaction in call order; and the number of blocks after the
\* genesis block is the number of calls of mine_and_add_block made with a
\* non-empty pool.
C18_AsStated ==
    /\ Sealed(chain, Len(chain)) \o pending_transactions = appended
    /\ Len(chain) - 1 = seal_calls

\* C18 amended - the texts sealed into the blocks after the genesis block,
\* in chain order, followed by the pool, are the texts passed to
\* add_transaction in call order; and the number of blocks after the
\* genesis block is the number of calls of mine_and_add_block made with a
\* non-empty pool that have returned: a call that is still searching, or
\* that a panic aborted, has pushed no block.
C18_NoTransactionLost ==
    /\ Sealed(chain, Len(chain)) \o pending_transactions = appended
    /\ Len(chain) - 1 = seal_calls - (IF pc = "idle" THEN 0 ELSE 1)

\* two seals have returned, of different texts, and a text is pending
C18_Witness ==
    /\ pc = "idle"
    /\ seal_calls = 2
    /\ Len(chain) = 3
    /\ Len(appended) = 4
    /\ appended[1] # appended[2]
    /\ Len(pending_transactions) = 1

\* the hash recomputed from the stored fields of the tampered block
TamperedRecomputed ==
    LET b == chain[tampered.index + 1] IN
      calculate_hash(b.previous_hash, b.timestamp, b.data, b.nonce)

\* C16 as stated - Tamper detection: after any one stored field (index,
\* timestamp, data, previous_hash, hash or nonce) of a block i after the
\* genesis block was changed, validate() reports a failure at index i: a
\* hash mismatch for hash, timestamp, data and nonce, a linkage mismatch
\* (or the hash mismatch that the same change causes) for previous_hash,
\* and some failure at i for index; on an untampered chain it reports
\* success.
C16_AsStated ==
    /\ tampered = NotTampered => validate(chain) = success
    /\ tampered.field \in {"hash", "timestamp", "data", "nonce"} =>
           validate(chain) =
               [index |-> tampered.index, kind |-> "hash mismatch"]
    /\ tampered.field = "previous_hash" =>
           /\ validate(chain).index = tampered.index
           /\ validate(chain).kind \in {"hash mismatch", "linkage mismatch"}
    /\ tampered.field = "index" =>
           /\ validate(chain) # success
           /\ validate(chain).index = tampered.index

\* C16 amended - on an untampered chain validate() reports success.  After
\* the stored hash of block i was changed it reports a hash mismatch at i.
\* After its timestamp, data or nonce was changed it reports a hash
\* mismatch at i, unless the changed fields have the digest that is stored,
\* and then it reports success.  After its previous_hash was changed it
\* reports a hash mismatch at i, or a linkage mismatch at i when the
\* changed fields have the digest that is stored.  A change of its index is
\* not detected: no check of validate() reads the index.
C16_TamperDetection ==
    /\ tampered = NotTampered => validate(chain) = success
    /\ tampered.field = "hash" =>
           validate(chain) =
               [index |-> tampered.index, kind |-> "hash mismatch"]
    /\ tampered.field \in {"timestamp", "data", "nonce"} =>
           validate(chain) =
               IF TamperedRecomputed = chain[tampered.index + 1].hash
               THEN success
               ELSE [index |-> tampered.index, kind |-> "hash mismatch"]
    /\ tampered.field = "previous_hash" =>
           validate(chain) =
               IF TamperedRecomputed = chain[tampered.index + 1].hash
               THEN [index |-> tampered.index, kind |-> "linkage mismatch"]
               ELSE [index |-> tampered.index, kind |-> "hash mismatch"]
    /\ tampered.field = "index" => validate(chain) = success

\* the previous_hash of the first of two sealed blocks was changed, and
\* validate() reports that block and not the one after it, whose link to
\* it still holds
C16_Witness ==
    /\ tampered = [index |-> 1, field |-> "previous_hash"]
    /\ Len(chain) = 3
    /\ chain[2].index = 1
    /\ validate(chain) = [index |-> 1, kind |-> "hash mismatch"]
    /\ failing_check(chain, 3) = "none"

====
